---- MODULE Spec2Model ----
(***************************************************************************)
(* The HTTP backend of src/index.js: three document collections (Category, *)
(* Promo, Gallery) behind Express route handlers.  A step of the model is  *)
(* one store operation of one handler (the code between two awaits, the    *)
(* response it writes included).  Handlers with a single store operation   *)
(* are one step; the two syncs and the promo upsert take several steps and *)
(* keep their position in catSync, galSync and promoPut.                   *)
(*                                                                         *)
(* Documents are abstracted to the fields the handlers and the schemas     *)
(* decide on: a category is (id, type), type standing for the required     *)
(* fields; a gallery item is (_id, title, category), title standing for    *)
(* the three required strings; a promo is (_id, tagText, title).           *)
(* Timestamps are not modelled.  resp is the response written by the step  *)
(* just taken (NoResp when the step wrote none).                           *)
(***************************************************************************)
EXTENDS Integers, Sequences, FiniteSets, TLC

\* Longest payload of a sync request when requests run one at a time.
MaxSyncLen == 2
\* Longest payload of a sync request when requests interleave.
MaxRaceLen == 1
\* Number of ObjectIds the store hands out per collection.
MaxOid == 3

\* A field that is absent from a document or a request body.
None == "none"
\* A slot with no request between two store operations.
SyncIdle == [pc |-> "idle", items |-> << >>, k |-> 0]
\* Slots for requests that are between two store operations.
Clients == {"c1", "c2"}

VARIABLES cats, catSync, gallery, galOid, galSync, promos, promoOid, promoPut, resp

vars == <<cats, catSync, gallery, galOid, galSync, promos, promoOid, promoPut, resp>>

catVars == <<cats, catSync>>
galVars == <<gallery, galOid, galSync>>
promoVars == <<promos, promoOid, promoPut>>

----------------------------------------------------------------------------
\* Schemas

CategoryIds == {"a", "b"}
TypeEnum == {"windows", "doors"}
BadType == "skylights"

\* Request bodies for POST /api/category and PUT /api/category/:id.
CategoryBodies ==
  [id : CategoryIds \cup {None}, type : TypeEnum \cup {BadType, None}]

\* categorySchema: id and type are required, type is one of the enum.
CategoryValid(c) ==
  /\ c.id # None
  /\ c.type \in TypeEnum

\* The unique index on Category.id.
IdFree(coll, id) == \A i \in DOMAIN coll : coll[i].id # id

\* Documents a sync payload is made of: two valid ones and one off the enum.
SyncCategories ==
  { [id |-> "a", type |-> "windows"],
    [id |-> "b", type |-> "doors"],
    [id |-> "b", type |-> BadType] }

SeqsUpTo(S, n) == UNION { [1..m -> S] : m \in 0..n }

\* Request bodies for POST /api/gallery and the items of a gallery sync.
GalleryBodies ==
  { [title |-> "g1", category |-> None],
    [title |-> "g1", category |-> "Kitchen"],
    [title |-> None, category |-> None] }

\* gallerySchema: url, title and location are required.
GalleryValid(g) == g.title # None

\* gallerySchema: category defaults to 'General'.
GalleryDoc(oid, g) ==
  [oid |-> oid, title |-> g.title,
   category |-> IF g.category = None THEN "General" ELSE g.category]

\* The :id of DELETE /api/gallery/:id that is no ObjectId.
Malformed == 0
Oids == 1..MaxOid

PromoBodies == [tagText : {"sale", None}, title : {"p1", "p2", None}]

NoBody == [tagText |-> None, title |-> None]
PutIdle == [pc |-> "idle", body |-> NoBody, found |-> {}]

DefaultPromo == [tagText |-> "Special Offer", title |-> "Already have a quote?"]

----------------------------------------------------------------------------
\* Responses

\* A response is the route that wrote it, its status and its JSON body; an
\* array is carried as {docs: array}.
Reply(op, status, body) == [op |-> op, status |-> status, body |-> body]
NoResp == Reply("none", 0, [none |-> TRUE])
\* Every catch block: res.status(500).json({error: error.message}).
Failure(op, msg) == Reply(op, 500, [error |-> msg])
Listing(docs) == [docs |-> docs]
Success == [success |-> TRUE]
Synced(n) == [success |-> TRUE, count |-> n]

----------------------------------------------------------------------------
\* Store operations on the Category collection.  Each yields the error it
\* throws (None when it succeeds), the collection afterwards and the document
\* it resolves to.

Outcome(err, coll, doc) == [err |-> err, coll |-> coll, doc |-> doc]

Min(S) == CHOOSE x \in S : \A y \in S : x <= y

RemoveAt(coll, i) ==
  [j \in 1..(Len(coll) - 1) |-> IF j < i THEN coll[j] ELSE coll[j + 1]]

\* Mutant: the insert without the unique index.
CategoryCreate_NoIndex(coll, c) ==
  IF ~CategoryValid(c) THEN Outcome("validation", coll, None)
  ELSE Outcome(None, Append(coll, c), c)

\* Category.create(doc): schema validation, then the insert under the unique
\* index on id.
CategoryCreate(coll, c) ==
  IF ~CategoryValid(c) THEN Outcome("validation", coll, None)
  ELSE IF ~IdFree(coll, c.id) THEN Outcome("duplicate", coll, None)
  ELSE Outcome(None, Append(coll, c), c)

\* The $set that Mongoose builds from a request body: the fields present.
Merge(d, body) ==
  [f \in {"id", "type"} |-> IF body[f] # None THEN body[f] ELSE d[f]]

\* Mutant: the upsert on a collection without the unique index.
CategoryFindOneAndUpdate_NoIndex(coll, key, body) ==
  IF body.type # None /\ body.type \notin TypeEnum
  THEN Outcome("validation", coll, None)
  ELSE LET hits == {i \in DOMAIN coll : coll[i].id = key}
       IN IF hits # {}
          THEN Outcome(None, [coll EXCEPT ![Min(hits)] = Merge(coll[Min(hits)], body)],
                       Merge(coll[Min(hits)], body))
          ELSE Outcome(None, Append(coll, Merge([id |-> key, type |-> None], body)),
                       Merge([id |-> key, type |-> None], body))

\* Category.findOneAndUpdate({id: key}, body, {new, upsert, runValidators}).
\* Update validators run on the paths the body sets; the document inserted by
\* an upsert starts from the filter's equality.  The unique index rejects a
\* result whose id another document holds.
CategoryFindOneAndUpdate(coll, key, body) ==
  IF body.type # None /\ body.type \notin TypeEnum
  THEN Outcome("validation", coll, None)
  ELSE LET hits == {i \in DOMAIN coll : coll[i].id = key}
       IN IF hits # {}
          THEN LET i == Min(hits)
                   new == Merge(coll[i], body)
               IN IF \E j \in DOMAIN coll \ {i} : coll[j].id = new.id
                  THEN Outcome("duplicate", coll, None)
                  ELSE Outcome(None, [coll EXCEPT ![i] = new], new)
          ELSE LET new == Merge([id |-> key, type |-> None], body)
               IN IF ~IdFree(coll, new.id)
                  THEN Outcome("duplicate", coll, None)
                  ELSE Outcome(None, Append(coll, new), new)

\* Category.findOneAndDelete({id: key}): removes the first match, if any.
CategoryFindOneAndDelete(coll, key) ==
  LET hits == {i \in DOMAIN coll : coll[i].id = key}
  IN IF hits = {} THEN Outcome(None, coll, None)
     ELSE Outcome(None, RemoveAt(coll, Min(hits)), coll[Min(hits)])

----------------------------------------------------------------------------
\* Category routes.  fault is the store operation failing (the awaited
\* promise rejecting without effect), which every handler catches.

AllIdle ==
  \A c \in Clients :
    catSync[c].pc = "idle" /\ galSync[c].pc = "idle" /\ promoPut[c].pc = "idle"

\* Category.find().lean(): every document, in the store's order.
CategoryFind(coll) == coll

\* GET /api/products
ListProducts(fault) ==
  /\ resp' = IF fault THEN Failure("listProducts", "store")
             ELSE Reply("listProducts", 200, Listing(CategoryFind(cats)))
  /\ UNCHANGED <<catVars, galVars, promoVars>>

\* POST /api/category
CreateCategory(body, fault) ==
  LET r == CategoryCreate(cats, body)
  IN /\ cats' = IF fault THEN cats ELSE r.coll
     /\ resp' = IF fault THEN Failure("createCategory", "store")
                ELSE IF r.err # None THEN Failure("createCategory", r.err)
                ELSE Reply("createCategory", 201, r.doc)
     /\ UNCHANGED <<catSync, galVars, promoVars>>

\* Mutant: the sync without its deleteMany.
SyncProductsDelete_NoClear(c, items, fault) ==
  /\ catSync[c].pc = "idle"
  /\ IF fault
     THEN /\ resp' = Failure("syncProducts", "store")
          /\ UNCHANGED catSync
     ELSE IF items = << >>
          THEN /\ resp' = Reply("syncProducts", 200, Synced(0))
               /\ UNCHANGED catSync
          ELSE /\ resp' = NoResp
               /\ catSync' = [catSync EXCEPT ![c] = [pc |-> "create", items |-> items, k |-> 1]]
  /\ UNCHANGED <<cats, galVars, promoVars>>

\* POST /api/products/sync, up to the first await: Category.deleteMany({}).
\* An empty payload skips the loop and answers at once.
SyncProductsDelete(c, items, fault) ==
  /\ catSync[c].pc = "idle"
  /\ IF fault
     THEN /\ resp' = Failure("syncProducts", "store")
          /\ UNCHANGED <<cats, catSync>>
     ELSE /\ cats' = << >>
          /\ IF items = << >>
             THEN /\ resp' = Reply("syncProducts", 200, Synced(0))
                  /\ UNCHANGED catSync
             ELSE /\ resp' = NoResp
                  /\ catSync' = [catSync EXCEPT ![c] = [pc |-> "create", items |-> items, k |-> 1]]
  /\ UNCHANGED <<galVars, promoVars>>

\* Mutant: the loop catching each insert's error and going on.
SyncProductsCreate_SkipBad(c, fault) ==
  /\ catSync[c].pc = "create"
  /\ LET items == catSync[c].items
         k == catSync[c].k
         r == CategoryCreate(cats, items[k])
     IN /\ cats' = IF fault THEN cats ELSE r.coll
        /\ IF k = Len(items)
           THEN /\ resp' = IF fault \/ r.err # None THEN Failure("syncProducts", "partial")
                           ELSE Reply("syncProducts", 200, Synced(Len(items)))
                /\ catSync' = [catSync EXCEPT ![c] = SyncIdle]
           ELSE /\ resp' = NoResp
                /\ catSync' = [catSync EXCEPT ![c].k = k + 1]
  /\ UNCHANGED <<galVars, promoVars>>

\* POST /api/products/sync, one turn of the loop: Category.create(cat).  The
\* first throw ends the handler in its catch; the last insert answers.
SyncProductsCreate(c, fault) ==
  /\ catSync[c].pc = "create"
  /\ LET items == catSync[c].items
         k == catSync[c].k
         r == CategoryCreate(cats, items[k])
         err == IF fault THEN "store" ELSE r.err
     IN IF err # None
        THEN /\ resp' = Failure("syncProducts", err)
             /\ catSync' = [catSync EXCEPT ![c] = SyncIdle]
             /\ UNCHANGED cats
        ELSE /\ cats' = r.coll
             /\ IF k = Len(items)
                THEN /\ resp' = Reply("syncProducts", 200, Synced(Len(items)))
                     /\ catSync' = [catSync EXCEPT ![c] = SyncIdle]
                ELSE /\ resp' = NoResp
                     /\ catSync' = [catSync EXCEPT ![c].k = k + 1]
  /\ UNCHANGED <<galVars, promoVars>>

\* PUT /api/category/:id
UpdateCategory(key, body, fault) ==
  LET r == CategoryFindOneAndUpdate(cats, key, body)
  IN /\ cats' = IF fault THEN cats ELSE r.coll
     /\ resp' = IF fault THEN Failure("updateCategory", "store")
                ELSE IF r.err # None THEN Failure("updateCategory", r.err)
                ELSE Reply("updateCategory", 200, r.doc)
     /\ UNCHANGED <<catSync, galVars, promoVars>>

\* DELETE /api/category/:id
DeleteCategory(key, fault) ==
  LET r == CategoryFindOneAndDelete(cats, key)
  IN /\ cats' = IF fault THEN cats ELSE r.coll
     /\ resp' = IF fault THEN Failure("deleteCategory", "store")
                ELSE Reply("deleteCategory", 200, Success)
     /\ UNCHANGED <<catSync, galVars, promoVars>>

\* A request arrives and runs to its first store operation.
CategoryStart ==
  \/ \E fault \in BOOLEAN : ListProducts(fault)
  \/ \E body \in CategoryBodies, fault \in BOOLEAN : CreateCategory(body, fault)
  \/ \E c \in Clients, items \in SeqsUpTo(SyncCategories, MaxRaceLen), fault \in BOOLEAN :
        SyncProductsDelete(c, items, fault)
  \/ \E key \in CategoryIds, body \in CategoryBodies, fault \in BOOLEAN :
        UpdateCategory(key, body, fault)
  \/ \E key \in CategoryIds, fault \in BOOLEAN : DeleteCategory(key, fault)

CategoryResume ==
  \E c \in Clients, fault \in BOOLEAN : SyncProductsCreate(c, fault)

----------------------------------------------------------------------------
\* Store operations on the Promo collection.

\* Promo.findOne(): no filter and no sort, so which document comes first is
\* the store's choice; the result is the set of documents it may return.
PromoFindOne(coll) == coll

\* Object.assign(promo, req.body) on the document read.
PromoAssign(snap, body) ==
  [oid |-> snap.oid,
   tagText |-> IF body.tagText # None THEN body.tagText ELSE snap.tagText,
   title |-> IF body.title # None THEN body.title ELSE snap.title]

\* Mutant: a save that inserts the assigned document beside the stored one.
PromoSave_Insert(coll, snap, body) ==
  Outcome(None,
          coll \cup {[PromoAssign(snap, body) EXCEPT !.oid = snap.oid + 1]},
          PromoAssign(snap, body))

\* promo.save() on a document read earlier: an update of the stored document
\* with that _id, setting the paths whose value the assignment changed.
PromoSave(coll, snap, body) ==
  LET new == PromoAssign(snap, body)
      put(d) == [oid |-> d.oid,
                 tagText |-> IF new.tagText # snap.tagText THEN new.tagText ELSE d.tagText,
                 title |-> IF new.title # snap.title THEN new.title ELSE d.title]
  IN IF new # snap /\ ~\E d \in coll : d.oid = snap.oid
     THEN Outcome("notfound", coll, None)
     ELSE Outcome(None, {IF d.oid = snap.oid THEN put(d) ELSE d : d \in coll}, new)

\* Mutant: a create that a collection already holding a promo rejects.
PromoCreate_Singleton(coll, oid, body) ==
  LET new == [oid |-> oid, tagText |-> body.tagText, title |-> body.title]
  IN IF coll # {} THEN Outcome("duplicate", coll, None)
     ELSE Outcome(None, coll \cup {new}, new)

\* Promo.create(req.body): promoSchema requires nothing.
PromoCreate(coll, oid, body) ==
  LET new == [oid |-> oid, tagText |-> body.tagText, title |-> body.title]
  IN Outcome(None, coll \cup {new}, new)

\* Mutant: the default promo written to the collection when none is found.
GetPromo_Persist(fault) ==
  /\ ~fault
  /\ IF promos = {}
     THEN /\ promos' = {[oid |-> promoOid, tagText |-> DefaultPromo.tagText,
                         title |-> DefaultPromo.title]}
          /\ promoOid' = promoOid + 1
          /\ resp' = Reply("getPromo", 200, DefaultPromo)
     ELSE /\ \E d \in promos : resp' = Reply("getPromo", 200, d)
          /\ UNCHANGED <<promos, promoOid>>
  /\ UNCHANGED <<catVars, galVars, promoPut>>

\* GET /api/promo
GetPromo(fault) ==
  /\ \/ /\ fault
        /\ resp' = Failure("getPromo", "store")
     \/ /\ ~fault
        /\ PromoFindOne(promos) = {}
        /\ resp' = Reply("getPromo", 200, DefaultPromo)
     \/ /\ ~fault
        /\ \E d \in PromoFindOne(promos) : resp' = Reply("getPromo", 200, d)
  /\ UNCHANGED <<catVars, galVars, promoVars>>

\* PUT /api/promo, up to the first await: Promo.findOne().
PutPromoFind(c, body, fault) ==
  /\ promoPut[c].pc = "idle"
  /\ \/ /\ fault
        /\ resp' = Failure("putPromo", "store")
        /\ UNCHANGED promoPut
     \/ /\ ~fault
        /\ PromoFindOne(promos) = {}
        /\ resp' = NoResp
        /\ promoPut' = [promoPut EXCEPT ![c] = [pc |-> "write", body |-> body, found |-> {}]]
     \/ /\ ~fault
        /\ \E d \in PromoFindOne(promos) :
              promoPut' = [promoPut EXCEPT ![c] = [pc |-> "write", body |-> body, found |-> {d}]]
        /\ resp' = NoResp
  /\ UNCHANGED <<catVars, galVars, promos, promoOid>>

\* PUT /api/promo, the branch taken on what findOne returned: promo.save() or
\* Promo.create(req.body), then the response.
PutPromoWrite(c, fault) ==
  /\ promoPut[c].pc = "write"
  /\ promoPut[c].found = {} /\ ~fault => promoOid <= MaxOid
  /\ LET body == promoPut[c].body
         found == promoPut[c].found
         r == IF found = {} THEN PromoCreate(promos, promoOid, body)
              ELSE PromoSave(promos, CHOOSE d \in found : TRUE, body)
         err == IF fault THEN "store" ELSE r.err
     IN /\ promos' = IF err # None THEN promos ELSE r.coll
        /\ promoOid' = IF err = None /\ found = {} THEN promoOid + 1 ELSE promoOid
        /\ resp' = IF err # None THEN Failure("putPromo", err)
                   ELSE Reply("putPromo", 200, r.doc)
  /\ promoPut' = [promoPut EXCEPT ![c] = PutIdle]
  /\ UNCHANGED <<catVars, galVars>>

PromoStart ==
  \/ \E fault \in BOOLEAN : GetPromo(fault)
  \/ \E c \in Clients, body \in PromoBodies, fault \in BOOLEAN : PutPromoFind(c, body, fault)

PromoResume ==
  \E c \in Clients, fault \in BOOLEAN : PutPromoWrite(c, fault)

----------------------------------------------------------------------------
\* Store operations on the Gallery collection.

\* Gallery.create(doc): validation, then the insert under a fresh _id.
GalleryCreate(coll, oid, g) ==
  IF ~GalleryValid(g) THEN Outcome("validation", coll, None)
  ELSE Outcome(None, coll \cup {GalleryDoc(oid, g)}, GalleryDoc(oid, g))

\* Mutant: the bulk insert replacing what the collection holds.
GalleryInsertMany_Replace(coll, oid, items) ==
  IF \E i \in DOMAIN items : ~GalleryValid(items[i])
  THEN Outcome("validation", coll, 0)
  ELSE Outcome(None, {GalleryDoc(oid + i - 1, items[i]) : i \in DOMAIN items}, Len(items))

\* Gallery.insertMany(items), ordered: every item is validated first and one
\* invalid item rejects the call before anything is inserted.
GalleryInsertMany(coll, oid, items) ==
  IF \E i \in DOMAIN items : ~GalleryValid(items[i])
  THEN Outcome("validation", coll, 0)
  ELSE Outcome(None,
               coll \cup {GalleryDoc(oid + i - 1, items[i]) : i \in DOMAIN items},
               Len(items))

\* Gallery.findByIdAndDelete(id): the id is cast to an ObjectId, which throws
\* on a string that is none; otherwise the document with that _id, if there
\* is one, is removed.
GalleryFindByIdAndDelete(coll, id) ==
  IF id = Malformed THEN Outcome("cast", coll, None)
  ELSE Outcome(None, {d \in coll : d.oid # id}, None)

\* GET /api/gallery (the order of the listing is not modelled)
ListGallery(fault) ==
  /\ resp' = IF fault THEN Failure("listGallery", "store")
             ELSE Reply("listGallery", 200, Listing(gallery))
  /\ UNCHANGED <<catVars, galVars, promoVars>>

\* POST /api/gallery
CreateGallery(body, fault) ==
  LET r == GalleryCreate(gallery, galOid, body)
      err == IF fault THEN "store" ELSE r.err
  IN /\ err = None => galOid <= MaxOid
     /\ gallery' = IF err # None THEN gallery ELSE r.coll
     /\ galOid' = IF err # None THEN galOid ELSE galOid + 1
     /\ resp' = IF err # None THEN Failure("createGallery", err)
                ELSE Reply("createGallery", 201, r.doc)
     /\ UNCHANGED <<galSync, catVars, promoVars>>

\* POST /api/gallery/sync, up to the first await: Gallery.deleteMany({}).
SyncGalleryDelete(c, items, fault) ==
  /\ galSync[c].pc = "idle"
  /\ IF fault
     THEN /\ resp' = Failure("syncGallery", "store")
          /\ UNCHANGED <<gallery, galSync>>
     ELSE /\ gallery' = {}
          /\ resp' = NoResp
          /\ galSync' = [galSync EXCEPT ![c] = [pc |-> "insert", items |-> items, k |-> 0]]
  /\ UNCHANGED <<galOid, catVars, promoVars>>

\* POST /api/gallery/sync, after the delete: Gallery.insertMany(items), then
\* the response.
SyncGalleryInsert(c, fault) ==
  /\ galSync[c].pc = "insert"
  /\ LET items == galSync[c].items
         r == GalleryInsertMany(gallery, galOid, items)
         err == IF fault THEN "store" ELSE r.err
     IN /\ err = None => galOid + Len(items) - 1 <= MaxOid
        /\ gallery' = IF err # None THEN gallery ELSE r.coll
        /\ galOid' = IF err # None THEN galOid ELSE galOid + Len(items)
        /\ resp' = IF err # None THEN Failure("syncGallery", err)
                   ELSE Reply("syncGallery", 200, Synced(r.doc))
  /\ galSync' = [galSync EXCEPT ![c] = SyncIdle]
  /\ UNCHANGED <<catVars, promoVars>>

\* DELETE /api/gallery/:id
DeleteGallery(id, fault) ==
  LET r == GalleryFindByIdAndDelete(gallery, id)
      err == IF fault THEN "store" ELSE r.err
  IN /\ gallery' = IF err # None THEN gallery ELSE r.coll
     /\ resp' = IF err # None THEN Failure("deleteGallery", err)
                ELSE Reply("deleteGallery", 200, Success)
     /\ UNCHANGED <<galOid, galSync, catVars, promoVars>>

GalleryStart ==
  \/ \E fault \in BOOLEAN : ListGallery(fault)
  \/ \E body \in GalleryBodies, fault \in BOOLEAN : CreateGallery(body, fault)
  \/ \E c \in Clients, items \in SeqsUpTo(GalleryBodies, MaxRaceLen), fault \in BOOLEAN :
        SyncGalleryDelete(c, items, fault)
  \/ \E id \in Oids \cup {Malformed}, fault \in BOOLEAN : DeleteGallery(id, fault)

GalleryResume ==
  \E c \in Clients, fault \in BOOLEAN : SyncGalleryInsert(c, fault)

----------------------------------------------------------------------------
\* Specifications

Init ==
  /\ cats = << >>
  /\ catSync = [c \in Clients |-> SyncIdle]
  /\ gallery = {}
  /\ galOid = 1
  /\ galSync = [c \in Clients |-> SyncIdle]
  /\ promos = {}
  /\ promoOid = 1
  /\ promoPut = [c \in Clients |-> PutIdle]
  /\ resp = NoResp

NextCategory == CategoryStart \/ CategoryResume
NextGallery == GalleryStart \/ GalleryResume
NextPromo == PromoStart \/ PromoResume

\* Every route, requests interleaving at their store operations.
Next == NextCategory \/ NextGallery \/ NextPromo
Spec == Init /\ [][Next]_vars

\* The same, with the requests of one collection only: no handler touches
\* two collections.
SpecCategory == Init /\ [][NextCategory]_vars
SpecGallery == Init /\ [][NextGallery]_vars
SpecPromo == Init /\ [][NextPromo]_vars

\* The two sync routes alone, the syncs of one collection interleaving.  No
\* handler touches two collections, so the races are explored one collection
\* at a time: a sync of one collection starts while the other collection is
\* as constructed.
CategoryUntouched == cats = << >> /\ \A c \in Clients : catSync[c].pc = "idle"
GalleryUntouched == gallery = {} /\ galOid = 1 /\ \A c \in Clients : galSync[c].pc = "idle"

NextSyncRace ==
  \/ GalleryUntouched /\ \E c \in Clients, items \in SeqsUpTo(SyncCategories, MaxRaceLen),
                             fault \in BOOLEAN : SyncProductsDelete(c, items, fault)
  \/ CategoryResume
  \/ CategoryUntouched /\ \E c \in Clients, items \in SeqsUpTo(GalleryBodies, MaxRaceLen),
                              fault \in BOOLEAN : SyncGalleryDelete(c, items, fault)
  \/ GalleryResume
SpecSyncRace == Init /\ [][NextSyncRace]_vars

\* Requests executed one at a time: a request starts only when no other is
\* between two store operations.
CategoryStartSeq ==
  \/ AllIdle /\ \E fault \in BOOLEAN : ListProducts(fault)
  \/ AllIdle /\ \E body \in CategoryBodies, fault \in BOOLEAN : CreateCategory(body, fault)
  \/ AllIdle /\ \E c \in Clients, items \in SeqsUpTo(SyncCategories, MaxSyncLen),
                    fault \in BOOLEAN : SyncProductsDelete(c, items, fault)
  \/ AllIdle /\ \E key \in CategoryIds, body \in CategoryBodies, fault \in BOOLEAN :
                    UpdateCategory(key, body, fault)
  \/ AllIdle /\ \E key \in CategoryIds, fault \in BOOLEAN : DeleteCategory(key, fault)

GalleryStartSeq ==
  \/ AllIdle /\ \E fault \in BOOLEAN : ListGallery(fault)
  \/ AllIdle /\ \E body \in GalleryBodies, fault \in BOOLEAN : CreateGallery(body, fault)
  \/ AllIdle /\ \E c \in Clients, items \in SeqsUpTo(GalleryBodies, MaxSyncLen),
                    fault \in BOOLEAN : SyncGalleryDelete(c, items, fault)
  \/ AllIdle /\ \E id \in Oids \cup {Malformed}, fault \in BOOLEAN : DeleteGallery(id, fault)

PromoStartSeq ==
  \/ AllIdle /\ \E fault \in BOOLEAN : GetPromo(fault)
  \/ AllIdle /\ \E c \in Clients, body \in PromoBodies, fault \in BOOLEAN :
                    PutPromoFind(c, body, fault)

NextCategorySeq == CategoryStartSeq \/ CategoryResume
NextGallerySeq == GalleryStartSeq \/ GalleryResume
NextPromoSeq == PromoStartSeq \/ PromoResume
NextSeq == NextCategorySeq \/ NextGallerySeq

\* The category and the gallery routes together, one request at a time.
SpecSeq == Init /\ [][NextSeq]_vars
\* One collection's routes, one request at a time.
SpecCategorySeq == Init /\ [][NextCategorySeq]_vars
SpecPromoSeq == Init /\ [][NextPromoSeq]_vars

----------------------------------------------------------------------------
\* Claims

UniqueIds(coll) ==
  \A i, j \in DOMAIN coll : i # j => coll[i].id # coll[j].id

\* C5: no two category documents ever have the same id, whatever requests
\* interleave, and a create whose id a stored document holds answers the
\* error response and leaves the collection as it was.
C5_UniqueCategoryId ==
  /\ [](UniqueIds(cats))
  /\ [][resp'.op = "createCategory" =>
          \A body \in CategoryBodies :
            CreateCategory(body, FALSE) /\ CategoryValid(body) /\ ~IdFree(cats, body.id)
              => resp'.status = 500 /\ cats' = cats]_vars

\* C5 (witness): a create was refused as a duplicate while two categories
\* are stored.
C5_Witness ==
  /\ resp.op = "createCategory"
  /\ resp.status = 500
  /\ resp.body = [error |-> "duplicate"]
  /\ Len(cats) = 2

\* The number of documents of a listing that equal doc.
Count(listing, doc) == Cardinality({i \in DOMAIN listing : listing[i] = doc})

\* C6: an upsert-by-key applied a second time, right after it was applied
\* with the same key and body, leaves the collection as the first
\* application left it, and when it answers with a document it is the
\* document the first application answered with; whether the key existed
\* before or the first application created it.
C6_UpsertIdempotent ==
  [][resp'.op = "updateCategory" =>
       \A key \in CategoryIds, body \in CategoryBodies :
         UpdateCategory(key, body, FALSE) =>
           LET again == CategoryFindOneAndUpdate(cats', key, body)
           IN /\ again.coll = cats'
              /\ resp'.status = 200 /\ again.err = None => again.doc = resp'.body]_vars

\* C6 (witness): an upsert has just created a second category.
C6_Witness ==
  /\ resp.op = "updateCategory"
  /\ resp.status = 200
  /\ Len(cats) = 2
  /\ cats[2] = resp.body

\* C9 (as claimed): after a create with any valid payload, the listing holds
\* exactly one document equal to the payload.
C9_Original ==
  [][resp'.op = "createCategory" =>
       \A body \in CategoryBodies :
         CategoryValid(body) /\ CreateCategory(body, FALSE)
           => Count(CategoryFind(cats'), body) = 1]_vars

\* C9 (amended): a create with a valid payload whose id no stored category
\* has answers 201 with the payload, and the listing that follows holds
\* exactly one document equal to it; when a stored category has the id, the
\* create answers the error response and the collection is unchanged.
C9_CreateThenList ==
  [][/\ resp'.op = "createCategory" =>
          \A body \in CategoryBodies :
            CategoryValid(body) /\ CreateCategory(body, FALSE) =>
              IF IdFree(cats, body.id)
              THEN /\ resp' = Reply("createCategory", 201, body)
                   /\ Count(CategoryFind(cats'), body) = 1
              ELSE /\ resp'.status = 500
                   /\ cats' = cats
     /\ resp.op = "createCategory" /\ resp.status = 201
          /\ resp'.op = "listProducts" /\ resp'.status = 200
          => Count(resp'.body.docs, resp.body) = 1]_vars

\* C9 (witness): a create has just added a second category and answered
\* with it.
C9_Witness ==
  /\ resp.op = "createCategory"
  /\ resp.status = 201
  /\ Len(cats) = 2
  /\ cats[2] = resp.body

\* The gallery documents with the fields of item g, whatever their _id.
GalleryLike(coll, g) == {d \in coll : d = GalleryDoc(d.oid, g)}

\* The positions of a payload that hold the same item as position i.
SameItem(items, i) == {j \in DOMAIN items : items[j] = items[i]}

\* C1: with requests executed one at a time, when a sync answers success the
\* collection is exactly its payload, whatever it held before: the
\* categories of the payload in order, and as many gallery documents of each
\* item as the payload has; for the empty payload the collection is empty.
C1_SyncReplaces ==
  [][/\ resp'.op = "syncProducts" /\ resp'.status = 200 =>
          \/ \E c \in Clients :
                /\ catSync[c].pc = "create"
                /\ catSync'[c].pc = "idle"
                /\ CategoryFind(cats') = catSync[c].items
          \/ /\ \A c \in Clients : catSync[c].pc = "idle"
             /\ resp'.body.count = 0
             /\ CategoryFind(cats') = << >>
     /\ resp'.op = "syncGallery" /\ resp'.status = 200 =>
          \E c \in Clients :
            /\ galSync[c].pc = "insert"
            /\ galSync'[c].pc = "idle"
            /\ LET items == galSync[c].items
               IN /\ Cardinality(gallery') = Len(items)
                  /\ \A i \in DOMAIN items :
                       Cardinality(GalleryLike(gallery', items[i]))
                         = Cardinality(SameItem(items, i))]_vars

\* C1 (witness): a category sync of two documents has answered success.
C1_Witness ==
  /\ resp = Reply("syncProducts", 200, Synced(2))
  /\ Len(cats) = 2

\* C4: with requests executed one at a time, a category sync that fails at
\* its k-th insert answers the error response and leaves exactly the first
\* k-1 documents of its payload in the collection.
C4_SyncPartial ==
  [][\A c \in Clients :
       catSync[c].pc = "create" /\ catSync'[c].pc = "idle" /\ resp'.status # 200 =>
         /\ resp'.op = "syncProducts"
         /\ resp'.status = 500
         /\ cats' = SubSeq(catSync[c].items, 1, catSync[c].k - 1)]_vars

\* C4 (witness): a sync failed on a duplicate id at its second insert and
\* one document is stored.
C4_Witness ==
  /\ resp = Failure("syncProducts", "duplicate")
  /\ Len(cats) = 1

\* A delete answered {success: true} and removed the document with the
\* identifier, no other.
DeletedCategory(key) ==
  /\ resp' = Reply("deleteCategory", 200, Success)
  /\ IF IdFree(cats, key)
     THEN cats' = cats
     ELSE /\ Len(cats') = Len(cats) - 1
          /\ cats' = SelectSeq(cats, LAMBDA d : d.id # key)

DeletedGallery(id) ==
  /\ resp' = Reply("deleteGallery", 200, Success)
  /\ gallery' = {d \in gallery : d.oid # id}
  /\ Cardinality(gallery') >= Cardinality(gallery) - 1

\* C7 (as claimed): a delete whose store operation does not fail answers
\* {success: true}; it removes nothing when no document has the identifier
\* and exactly the document that has it otherwise, for categories by id and
\* for gallery items by any :id of the path.
C7_DeleteTolerant ==
  [][/\ resp'.op = "deleteCategory" =>
          \A key \in CategoryIds : DeleteCategory(key, FALSE) => DeletedCategory(key)
     /\ resp'.op = "deleteGallery" =>
          \A id \in Oids \cup {Malformed} : DeleteGallery(id, FALSE) => DeletedGallery(id)]_vars

\* C7 (the part that holds): the same, for the gallery only with an :id that
\* is an ObjectId.
C7_DeleteTolerantOfObjectIds ==
  [][/\ resp'.op = "deleteCategory" =>
          \A key \in CategoryIds : DeleteCategory(key, FALSE) => DeletedCategory(key)
     /\ resp'.op = "deleteGallery" =>
          \A id \in Oids : DeleteGallery(id, FALSE) => DeletedGallery(id)]_vars

C2_NoWipe ==
  [][~(/\ cats # << >>
       /\ cats' = << >>
       /\ \A c \in Clients : catSync'[c].pc = "idle")]_vars

\* C3: an upsert whose findOne found no promo creates one whatever the
\* collection holds by then, failing only if the store fails; so two upserts
\* that both found none leave two promos, and the collection never holds more
\* promos than there are upserts between their findOne and their create.
C3_PromoRace ==
  /\ [](Cardinality(promos) <= Cardinality(Clients))
  /\ [][\A c \in Clients :
          /\ promoPut[c].pc = "write"
          /\ promoPut[c].found = {}
          /\ promoPut'[c].pc = "idle"
          => \/ /\ resp' = Failure("putPromo", "store")
                /\ promos' = promos
             \/ /\ resp'.op = "putPromo"
                /\ resp'.status = 200
                /\ resp'.body \in promos' \ promos
                /\ Cardinality(promos') = Cardinality(promos) + 1]_vars

\* C3 (witness): two upserts that both found no promo have each created one.
C3_Witness ==
  /\ Cardinality(promos) = 2
  /\ resp.op = "putPromo"
  /\ resp.status = 200
  /\ \A c \in Clients : promoPut[c].pc = "idle"

\* C8: a Get whose findOne does not fail leaves the promo collection as it
\* is; on an empty collection it answers the default promo, and otherwise a
\* stored document.
C8_GetPromoReadsOnly ==
  [][resp'.op = "getPromo" =>
       /\ promos' = promos
       /\ resp'.status = 200 =>
            IF promos = {} THEN resp'.body = DefaultPromo ELSE resp'.body \in promos]_vars

\* C8 (witness): a Get has answered the default promo and the collection is
\* empty.
C8_Witness ==
  /\ resp = Reply("getPromo", 200, DefaultPromo)
  /\ promos = {}

\* C10: with promo upserts executed one at a time the collection never holds
\* two promos; the number of promos never decreases; and an upsert on a
\* stored promo assigns the fields of its body to that promo in place.
C10_PromoSingleton ==
  /\ [](Cardinality(promos) <= 1)
  /\ [][/\ Cardinality(promos') >= Cardinality(promos)
        /\ resp'.op = "putPromo" /\ resp'.status = 200 =>
             \E c \in Clients :
               /\ promoPut[c].pc = "write"
               /\ promos' = IF promos = {}
                            THEN {[oid |-> promoOid, tagText |-> promoPut[c].body.tagText,
                                   title |-> promoPut[c].body.title]}
                            ELSE {PromoAssign(d, promoPut[c].body) : d \in promos}
               /\ resp'.body \in promos']_vars

\* C10 (witness): an upsert has changed the title of the stored promo.
C10_Witness ==
  /\ resp.op = "putPromo"
  /\ resp.status = 200
  /\ promoOid = 2
  /\ promos = {[oid |-> 1, tagText |-> "sale", title |-> "p2"]}

====
